---- MODULE Spec2Model ----
(***************************************************************************)
(* A model of the asm374 assembler.  A source line is a sequence of        *)
(* one-character strings; a JavaScript number is a record that is either   *)
(* NaN or an integer (every value the model reaches is far below 2^53, so  *)
(* the double arithmetic of the program is exact).                         *)
(*                                                                         *)
(* The repository holds the assembler in two stages of its development:    *)
(*   src/unnamed/part_000  the complete pipeline: parse, assemble, pack    *)
(*                         (bitsToNumber) and report;                      *)
(*   src/asm374.ts         an earlier stage: parse, assemble and a         *)
(*                         "wrong number of bits" check in main.           *)
(* Definitions without a prefix model part_000, definitions prefixed by    *)
(* V1 model asm374.ts.                                                     *)
(***************************************************************************)
EXTENDS Integers, Sequences, FiniteSets, TLC

VARIABLES src, lines, instructions, assembled, compiled, pc, idx, log

vars == <<src, lines, instructions, assembled, compiled, pc, idx, log>>

(***************************************************************************)
(* JavaScript numbers                                                      *)
(***************************************************************************)
Num(v) == [nan |-> FALSE, val |-> v]

NaN == [nan |-> TRUE, val |-> 0]

RECURSIVE Pow2(_)
Pow2(n) == IF n = 0 THEN 1 ELSE 2 * Pow2(n - 1)

\* a + b of two numbers: NaN when either is NaN
NumAdd(a, b) == IF a.nan \/ b.nan THEN NaN ELSE Num(a.val + b.val)

\* A machine word does not fit the integers of the model checker, so the
\* numbers bitsToNumber computes are kept as hi * 2^16 + lo with lo in
\* 0 .. 2^16 - 1 (hi is negative for a negative number)
Base == Pow2(16)

Wide(hi, lo) == [nan |-> FALSE, hi |-> hi, lo |-> lo]

WideNaN == [nan |-> TRUE, hi |-> 0, lo |-> 0]

ToWide(a) ==
    IF a.nan THEN WideNaN ELSE Wide(a.val \div Base, a.val % Base)

WideAdd(a, b) ==
    IF a.nan \/ b.nan THEN WideNaN
    ELSE Wide(a.hi + b.hi + ((a.lo + b.lo) \div Base),
              (a.lo + b.lo) % Base)

RECURSIVE WideTimesPow2(_, _)
\* a * Math.pow(2, i)
WideTimesPow2(a, i) ==
    IF a.nan THEN WideNaN
    ELSE IF i = 0 THEN a
    ELSE WideTimesPow2(Wide(2 * a.hi + ((2 * a.lo) \div Base),
                            (2 * a.lo) % Base), i - 1)

(***************************************************************************)
(* JavaScript strings, as sequences of characters with 0-based indices     *)
(***************************************************************************)
WhiteSpace == {" ", "\t", "\r", "\n"}

RECURSIVE IndexFrom(_, _, _)
IndexFrom(s, c, k) ==
    IF k > Len(s) THEN -1
    ELSE IF s[k] = c THEN k - 1
    ELSE IndexFrom(s, c, k + 1)

\* s.indexOf(c): the 0-based index of the first c, -1 when there is none
IndexOf(s, c) == IndexFrom(s, c, 1)

\* s.includes(c)
Includes(s, c) == IndexOf(s, c) # -1

\* s.substr(start, length) for start >= 0: empty when length <= 0 or start
\* is past the end, cut at the end of s
Substr(s, start, length) ==
    LET stop == IF start + length > Len(s) THEN Len(s) ELSE start + length
    IN  IF length <= 0 \/ start >= Len(s) THEN <<>>
        ELSE SubSeq(s, start + 1, stop)

\* s.substr(start)
SubstrFrom(s, start) == Substr(s, start, Len(s) - start)

RECURSIVE TrimStart(_)
TrimStart(s) ==
    IF s # <<>> /\ Head(s) \in WhiteSpace THEN TrimStart(Tail(s)) ELSE s

RECURSIVE TrimEnd(_)
TrimEnd(s) ==
    IF s # <<>> /\ s[Len(s)] \in WhiteSpace
    THEN TrimEnd(SubSeq(s, 1, Len(s) - 1))
    ELSE s

\* s.trim()
Trim(s) == TrimEnd(TrimStart(s))

\* s.replace(c, ""): removes the first occurrence of c only
ReplaceFirst(s, c) ==
    LET k == IndexOf(s, c)
    IN  IF k = -1 THEN s
        ELSE SubSeq(s, 1, k) \o SubSeq(s, k + 2, Len(s))

RECURSIVE Split(_, _)
\* s.split(c): always at least one piece, the empty string splits to <<"">>
Split(s, c) ==
    LET k == IndexOf(s, c)
    IN  IF k = -1 THEN <<s>>
        ELSE <<SubSeq(s, 1, k)>> \o Split(SubSeq(s, k + 2, Len(s)), c)

(***************************************************************************)
(* Number.parseInt(string, radix); radix 0 stands for a call without one   *)
(***************************************************************************)
DigitOf ==
    ("0" :> 0) @@ ("1" :> 1) @@ ("2" :> 2) @@ ("3" :> 3) @@ ("4" :> 4) @@
    ("5" :> 5) @@ ("6" :> 6) @@ ("7" :> 7) @@ ("8" :> 8) @@ ("9" :> 9) @@
    ("a" :> 10) @@ ("b" :> 11) @@ ("c" :> 12) @@ ("d" :> 13) @@
    ("e" :> 14) @@ ("f" :> 15) @@
    ("A" :> 10) @@ ("B" :> 11) @@ ("C" :> 12) @@ ("D" :> 13) @@
    ("E" :> 14) @@ ("F" :> 15)

IsDigit(c, radix) == c \in DOMAIN DigitOf /\ DigitOf[c] < radix

RECURSIVE ParseDigits(_, _, _)
\* the value of the longest prefix of s made of digits of the radix
ParseDigits(s, radix, acc) ==
    IF s # <<>> /\ IsDigit(Head(s), radix)
    THEN ParseDigits(Tail(s), radix, acc * radix + DigitOf[Head(s)])
    ELSE acc

parseInt(str, radix) ==
    LET S0 == TrimStart(str)
        neg == S0 # <<>> /\ Head(S0) = "-"
        S1 == IF S0 # <<>> /\ Head(S0) \in {"+", "-"} THEN Tail(S0) ELSE S0
        hasPrefix == /\ radix \in {0, 16}
                     /\ Len(S1) >= 2
                     /\ S1[1] = "0"
                     /\ S1[2] \in {"x", "X"}
        R == IF hasPrefix THEN 16 ELSE IF radix = 0 THEN 10 ELSE radix
        S2 == IF hasPrefix THEN SubSeq(S1, 3, Len(S1)) ELSE S1
    IN  IF S2 = <<>> \/ ~IsDigit(Head(S2), R) THEN NaN
        ELSE Num((IF neg THEN -1 ELSE 1) * ParseDigits(S2, R, 0))

(***************************************************************************)
(* Operand resolvers of part_000                                           *)
(***************************************************************************)
Field(bits, value) == [bits |-> bits, value |-> value]

\* parseImmediate reading the text after $ in base 10
M_parseImmediate(str) ==
    IF str # <<>> /\ str[1] = "$"
    THEN parseInt(SubstrFrom(str, 1), 10)
    ELSE parseInt(str, 10)

parseImmediate(str) ==
    IF str # <<>> /\ str[1] = "$"
    THEN parseInt(SubstrFrom(str, 1), 16)
    ELSE parseInt(str, 10)

fieldFromRegister(reg) == Field(4, parseInt(SubstrFrom(reg, 1), 0))

parseAddress(param) ==
    IF Includes(param, "(")
    THEN LET immediateOffset == parseImmediate(param)
             startIndex == IndexOf(param, "(") + 1
             stopIndex == IndexOf(param, ")")
             length == stopIndex - startIndex
         IN  [regField |-> fieldFromRegister(Substr(param, startIndex, length)),
              immediateOffset |-> immediateOffset]
    ELSE [regField |-> Field(4, Num(0)),
          immediateOffset |-> parseImmediate(param)]

(***************************************************************************)
(* The mnemonics, as strings                                               *)
(***************************************************************************)
op_ld == <<"l", "d">>
op_ldi == <<"l", "d", "i">>
op_st == <<"s", "t">>
op_add == <<"a", "d", "d">>
op_sub == <<"s", "u", "b">>
op_shr == <<"s", "h", "r">>
op_shl == <<"s", "h", "l">>
op_ror == <<"r", "o", "r">>
op_rol == <<"r", "o", "l">>
op_and == <<"a", "n", "d">>
op_or == <<"o", "r">>
op_addi == <<"a", "d", "d", "i">>
op_andi == <<"a", "n", "d", "i">>
op_ori == <<"o", "r", "i">>
op_mul == <<"m", "u", "l">>
op_div == <<"d", "i", "v">>
op_neg == <<"n", "e", "g">>
op_not == <<"n", "o", "t">>
op_brzr == <<"b", "r", "z", "r">>
op_brnz == <<"b", "r", "n", "z">>
op_brmi == <<"b", "r", "m", "i">>
op_brpl == <<"b", "r", "p", "l">>
op_jr == <<"j", "r">>
op_jal == <<"j", "a", "l">>
op_in == <<"i", "n">>
op_out == <<"o", "u", "t">>
op_mfhi == <<"m", "f", "h", "i">>
op_mflo == <<"m", "f", "l", "o">>
op_nop == <<"n", "o", "p">>
op_halt == <<"h", "a", "l", "t">>

OP_TABLE ==
    (op_ld :> 0) @@
    (op_ldi :> 1) @@
    (op_st :> 2) @@
    (op_add :> 3) @@
    (op_sub :> 4) @@
    (op_shr :> 5) @@
    (op_shl :> 6) @@
    (op_ror :> 7) @@
    (op_rol :> 8) @@
    (op_and :> 9) @@
    (op_or :> 10) @@
    (op_addi :> 11) @@
    (op_andi :> 12) @@
    (op_ori :> 13) @@
    (op_mul :> 14) @@
    (op_div :> 15) @@
    (op_neg :> 16) @@
    (op_not :> 17) @@
    (op_brzr :> 18) @@
    (op_brnz :> 18) @@
    (op_brmi :> 18) @@
    (op_brpl :> 18) @@
    (op_jr :> 19) @@
    (op_jal :> 20) @@
    (op_in :> 21) @@
    (op_out :> 22) @@
    (op_mfhi :> 23) @@
    (op_mflo :> 24) @@
    (op_nop :> 25) @@
    (op_halt :> 26)

\* BR_TABLE with the sub-codes of brpl and brmi exchanged
M_BR_TABLE ==
    (op_brzr :> 0) @@ (op_brnz :> 1) @@ (op_brpl :> 3) @@ (op_brmi :> 2)

BR_TABLE ==
    (op_brzr :> 0) @@ (op_brnz :> 1) @@ (op_brpl :> 2) @@ (op_brmi :> 3)

\* the case labels of the switch in assembleInstruction
LoadOps == {op_ld, op_ldi}

StoreOps == {op_st}

Alu3Ops == {op_add, op_sub, op_and, op_or, op_shr, op_shl, op_ror, op_rol}

AluImmOps == {op_addi, op_andi, op_ori}

Alu2Ops == {op_mul, op_div, op_neg, op_not}

BranchOps == {op_brmi, op_brpl, op_brzr, op_brnz}

OneRegOps == {op_jr, op_jal, op_in, op_out, op_mfhi, op_mflo}

SimpleOps == {op_nop, op_halt}

(***************************************************************************)
(* assembleInstruction.  Its outcome is the list of fields it returns,     *)
(* whether it warned "Unrecognized opcode", or that it threw: params[k] of *)
(* a list with no element k is undefined, and reading a character or       *)
(* calling a method of undefined throws a TypeError.                       *)
(***************************************************************************)
Has(params, k) == k < Len(params)

Returned(fields) == [threw |-> FALSE, warned |-> FALSE, fields |-> fields]

Threw == [threw |-> TRUE, warned |-> FALSE, fields |-> <<>>]

Unrecognized == [threw |-> FALSE, warned |-> TRUE, fields |-> <<>>]

OpcodeField(op) == Field(5, Num(OP_TABLE[op]))

assembleInstruction(instruction) ==
    LET op == instruction.op
        params == instruction.params
    IN  CASE op \in LoadOps ->
               IF ~(Has(params, 0) /\ Has(params, 1)) THEN Threw
               ELSE LET ra == fieldFromRegister(params[1])
                        address == parseAddress(params[2])
                    IN  Returned(<<OpcodeField(op), ra, address.regField,
                                   Field(19, address.immediateOffset)>>)
          [] op \in StoreOps ->
               IF ~(Has(params, 0) /\ Has(params, 1)) THEN Threw
               ELSE LET storeAddress == parseAddress(params[1])
                        ra == fieldFromRegister(params[2])
                    IN  Returned(<<OpcodeField(op), ra, storeAddress.regField,
                                   Field(19, storeAddress.immediateOffset)>>)
          [] op \in Alu3Ops ->
               IF ~(Has(params, 0) /\ Has(params, 1) /\ Has(params, 2))
               THEN Threw
               ELSE Returned(<<OpcodeField(op),
                               fieldFromRegister(params[1]),
                               fieldFromRegister(params[2]),
                               fieldFromRegister(params[3]),
                               Field(15, Num(0))>>)
          [] op \in AluImmOps ->
               IF ~(Has(params, 0) /\ Has(params, 1) /\ Has(params, 2))
               THEN Threw
               ELSE Returned(<<OpcodeField(op),
                               fieldFromRegister(params[1]),
                               fieldFromRegister(params[2]),
                               Field(19, parseImmediate(params[3]))>>)
          [] op \in Alu2Ops ->
               IF ~(Has(params, 0) /\ Has(params, 1)) THEN Threw
               ELSE Returned(<<OpcodeField(op),
                               fieldFromRegister(params[1]),
                               fieldFromRegister(params[2]),
                               Field(19, Num(0))>>)
          [] op \in BranchOps ->
               IF ~(Has(params, 0) /\ Has(params, 1)) THEN Threw
               ELSE Returned(<<OpcodeField(op),
                               fieldFromRegister(params[1]),
                               Field(2, Num(BR_TABLE[op])),
                               Field(2, Num(0)),
                               Field(19, parseImmediate(params[2]))>>)
          [] op \in OneRegOps ->
               IF ~Has(params, 0) THEN Threw
               ELSE Returned(<<OpcodeField(op),
                               fieldFromRegister(params[1]),
                               Field(23, Num(0))>>)
          [] op \in SimpleOps ->
               Returned(<<OpcodeField(op), Field(27, Num(0))>>)
          [] OTHER -> Unrecognized

(***************************************************************************)
(* parseInstruction                                                        *)
(***************************************************************************)
parseInstruction(line) ==
    LET startIndex == IF Includes(line, ":") THEN IndexOf(line, ":") + 1 ELSE 0
        stopIndex == IF Includes(line, ";") THEN IndexOf(line, ";")
                     ELSE Len(line)
        length == stopIndex - startIndex
        filtered == Trim(ReplaceFirst(Substr(line, startIndex, length), "\r"))
        found == IndexOf(filtered, " ")
        spaceIndex == IF found = -1 THEN Len(filtered) ELSE found
        right_side == Trim(SubstrFrom(filtered, spaceIndex))
        pieces == Split(right_side, ",")
    IN  [op |-> Substr(filtered, 0, spaceIndex),
         params |-> [k \in 1..Len(pieces) |-> Trim(pieces[k])]]

(***************************************************************************)
(* bitsToNumber: the fields from the last (least significant) to the first *)
(***************************************************************************)
RECURSIVE M_PackFrom(_, _, _, _)
\* the loop of bitsToNumber adding 2^(bits - 1), not 2^bits, to a negative
\* value
M_PackFrom(fields_des, k, i, num) ==
    IF k = 0 THEN num
    ELSE LET field == fields_des[k]
             unsigned_val ==
                 IF ~field.value.nan /\ field.value.val >= 0
                 THEN field.value
                 ELSE NumAdd(Num(Pow2(field.bits - 1)), field.value)
             shifted_val == WideTimesPow2(ToWide(unsigned_val), i)
         IN  M_PackFrom(fields_des, k - 1, i + field.bits,
                        WideAdd(num, shifted_val))

RECURSIVE PackFrom(_, _, _, _)
PackFrom(fields_des, k, i, num) ==
    IF k = 0 THEN num
    ELSE LET field == fields_des[k]
             unsigned_val ==
                 IF ~field.value.nan /\ field.value.val >= 0
                 THEN field.value
                 ELSE NumAdd(Num(Pow2(field.bits)), field.value)
             shifted_val == WideTimesPow2(ToWide(unsigned_val), i)
         IN  PackFrom(fields_des, k - 1, i + field.bits,
                      WideAdd(num, shifted_val))

\* bitsToNumber without the reverse: the first field in the low bits
M_bitsToNumber(fields_des) ==
    PackFrom([k \in 1..Len(fields_des) |->
                 fields_des[Len(fields_des) + 1 - k]],
             Len(fields_des), 0, Wide(0, 0))

bitsToNumber(fields_des) == PackFrom(fields_des, Len(fields_des), 0, Wide(0, 0))

(***************************************************************************)
(* Source text: tokens and lines written the way program_part1.asm writes  *)
(* them                                                                    *)
(***************************************************************************)
DecChars == <<"0", "1", "2", "3", "4", "5", "6", "7", "8", "9">>

HexChars == DecChars \o <<"A", "B", "C", "D", "E", "F">>

RECURSIVE Dec(_)
\* the decimal digits of a natural number
Dec(n) == IF n < 10 THEN <<DecChars[n + 1]>>
          ELSE Dec(n \div 10) \o <<DecChars[(n % 10) + 1]>>

RECURSIVE Hex(_)
\* the hexadecimal digits of a natural number
Hex(n) == IF n < 16 THEN <<HexChars[n + 1]>>
          ELSE Hex(n \div 16) \o <<HexChars[(n % 16) + 1]>>

\* R<r>
RegTok(r) == <<"R">> \o Dec(r)

\* [-]<decimal>
DecTok(v) == IF v < 0 THEN <<"-">> \o Dec(-v) ELSE Dec(v)

\* $<hex-digits>
HexTok(n) == <<"$">> \o Hex(n)

\* <offset>(<register>)
AddrTok(offset, reg) == offset \o <<"(">> \o reg \o <<")">>

RECURSIVE JoinParams(_)
JoinParams(params) ==
    IF Len(params) = 0 THEN <<>>
    ELSE IF Len(params) = 1 THEN params[1]
    ELSE params[1] \o <<",", " ">> \o JoinParams(Tail(params))

\* "    mnemonic operand, operand"
Line(op, params) ==
    <<" ", " ", " ", " ">> \o op \o
    (IF Len(params) = 0 THEN <<>> ELSE <<" ">> \o JoinParams(params))

(***************************************************************************)
(* The earlier stage, asm374.ts: parseAddress reads its offset without a   *)
(* radix, st and the branches have other layouts, main checks the widths   *)
(***************************************************************************)
V1parseAddress(param) ==
    IF Includes(param, "(")
    THEN LET immediateOffset == parseInt(param, 0)
             startIndex == IndexOf(param, "(") + 1
             stopIndex == IndexOf(param, ")")
             length == stopIndex - startIndex
         IN  [regField |-> fieldFromRegister(Substr(param, startIndex, length)),
              immediateOffset |-> immediateOffset]
    ELSE LET parseFrom == IF param # <<>> /\ param[1] = "$"
                          THEN SubstrFrom(param, 1) ELSE param
         IN  [regField |-> Field(4, Num(0)),
              immediateOffset |-> parseInt(parseFrom, 0)]

\* Number.parseInt(params[k]): of undefined it is NaN, it does not throw
V1parseIntParam(params, k) ==
    IF Has(params, k) THEN parseInt(params[k + 1], 0) ELSE NaN

V1assembleInstruction(instruction) ==
    LET op == instruction.op
        params == instruction.params
    IN  CASE op \in LoadOps ->
               IF ~(Has(params, 0) /\ Has(params, 1)) THEN Threw
               ELSE LET ra == fieldFromRegister(params[1])
                        address == V1parseAddress(params[2])
                    IN  Returned(<<OpcodeField(op), ra, address.regField,
                                   Field(19, address.immediateOffset)>>)
          [] op \in StoreOps ->
               IF ~(Has(params, 0) /\ Has(params, 1)) THEN Threw
               ELSE LET storeAddress == V1parseAddress(params[1])
                        ra == fieldFromRegister(params[2])
                    IN  Returned(<<OpcodeField(op), ra, storeAddress.regField,
                                   Field(19, Num(0))>>)
          [] op \in Alu3Ops ->
               IF ~(Has(params, 0) /\ Has(params, 1) /\ Has(params, 2))
               THEN Threw
               ELSE Returned(<<OpcodeField(op),
                               fieldFromRegister(params[1]),
                               fieldFromRegister(params[2]),
                               fieldFromRegister(params[3]),
                               Field(15, Num(0))>>)
          [] op \in AluImmOps ->
               IF ~(Has(params, 0) /\ Has(params, 1)) THEN Threw
               ELSE Returned(<<OpcodeField(op),
                               fieldFromRegister(params[1]),
                               fieldFromRegister(params[2]),
                               Field(19, V1parseIntParam(params, 2))>>)
          [] op \in Alu2Ops ->
               IF ~(Has(params, 0) /\ Has(params, 1)) THEN Threw
               ELSE Returned(<<OpcodeField(op),
                               fieldFromRegister(params[1]),
                               fieldFromRegister(params[2]),
                               Field(19, Num(0))>>)
          [] op \in BranchOps ->
               Returned(<<OpcodeField(op),
                          Field(4, Num(0)),
                          Field(2, Num(BR_TABLE[op])),
                          Field(19, V1parseIntParam(params, 0))>>)
          [] op \in OneRegOps ->
               IF ~Has(params, 0) THEN Threw
               ELSE Returned(<<OpcodeField(op),
                               fieldFromRegister(params[1]),
                               Field(23, Num(0))>>)
          [] op \in SimpleOps ->
               Returned(<<OpcodeField(op), Field(27, Num(0))>>)
          [] OTHER -> Unrecognized

RECURSIVE BitSum(_)
\* the bitSum loop of main in asm374.ts
BitSum(fields) ==
    IF fields = <<>> THEN 0 ELSE Head(fields).bits + BitSum(Tail(fields))

(***************************************************************************)
(* The files main may read.  A file is written from a list of intended     *)
(* instructions, kept in src beside the text: each has its mnemonic, its   *)
(* operands (the token of each and what the token is meant to denote) and  *)
(* the text of its line.                                                   *)
(***************************************************************************)
\* register indices written in the files: 0..15 and the ones just above
MaxReg == 16

\* the longest file of several lines
MaxLines == 2

\* R<r>
RegOp(r) == [kind |-> "reg", text |-> RegTok(r), val |-> r, base |-> -1]

\* [-]<decimal>
DecOp(v) == [kind |-> "imm", text |-> DecTok(v), val |-> v, base |-> -1]

\* $<hex-digits>
HexOp(v) == [kind |-> "imm", text |-> HexTok(v), val |-> v, base |-> -1]

\* <immediate>(R<r>)
AddrOp(o, r) == [kind |-> "addr", text |-> AddrTok(o.text, RegTok(r)),
                 val |-> o.val, base |-> r]

\* a token that is no operand of the grammar
BadOp(text) == [kind |-> "bad", text |-> text, val |-> 0, base |-> -1]

RegOps == {RegOp(r) : r \in 0..MaxReg}

BadRegOps == {BadOp(<<"R">>), BadOp(<<"X", "3">>), BadOp(<<>>)}

AllRegOps == RegOps \cup BadRegOps

SomeRegOps == {RegOp(0), RegOp(7), RegOp(15), RegOp(MaxReg)} \cup BadRegOps

\* offsets and immediates: small ones, those of program_part1.asm, and the
\* ends of the 19-bit range with their neighbours outside it
ImmVals == {-Pow2(18) - 1, -Pow2(18), -2, -1, 0, 1, 3, 4, 103, 117, 135, 255,
            Pow2(18) - 1, Pow2(18), Pow2(19)}

GoodImmOps == {DecOp(v) : v \in ImmVals}
              \cup {HexOp(v) : v \in {w \in ImmVals : w >= 0}}

BadImmOps == {BadOp(<<"$">>), BadOp(<<"$", "Z", "Z">>),
              BadOp(<<"a", "b", "c">>), BadOp(<<"1", "2", "x">>),
              BadOp(<<>>)}

ImmOps == GoodImmOps \cup BadImmOps

BaseRegs == {0, 1, 2, 15, MaxReg}

AddrOps == ImmOps
           \cup {AddrOp(o, r) : o \in GoodImmOps, r \in BaseRegs}
           \cup {BadOp(AddrTok(o.text, RegTok(1))) : o \in BadImmOps}
           \cup {BadOp(AddrTok(DecTok(4), r.text)) : r \in BadRegOps}
           \cup {BadOp(<<"4", "(", "R", "2">>)}

UnknownOps == {<<>>, <<"f", "o", "o">>, <<"L", "D", "I">>}

\* the instruction op args, written as program_part1.asm writes its lines
Instr(op, args) ==
    [op |-> op, args |-> args,
     text |-> Line(op, [k \in 1..Len(args) |-> args[k].text])]

\* the same instruction on a line with a label, a comment or a carriage
\* return around it
Dressed(before, i, after) ==
    [op |-> i.op, args |-> i.args, text |-> before \o i.text \o after]

\* a few registers and addresses, for the operands beside the one varied
FewRegOps == {RegOp(1), RegOp(15), BadOp(<<>>)}

FewAddrOps == {HexOp(135), DecOp(-2), AddrOp(DecOp(4), 2),
               AddrOp(HexOp(103), 1), AddrOp(DecOp(-Pow2(18)), 15),
               BadOp(<<"$">>)}

LoadArgs == (AllRegOps \X FewAddrOps) \cup (SomeRegOps \X AddrOps)

\* the instructions with as many operands as their layout has, well formed
\* or not
FullInstrs ==
    {Instr(op, <<x[1], x[2]>>) : op \in LoadOps, x \in LoadArgs}
    \cup {Instr(op, <<x[2], x[1]>>) : op \in StoreOps, x \in LoadArgs}
    \cup {Instr(op, <<ra, rb, rc>>) : op \in Alu3Ops, ra \in SomeRegOps,
                                      rb \in FewRegOps, rc \in FewRegOps}
    \cup {Instr(op, <<ra, rb, c>>) : op \in AluImmOps, ra \in SomeRegOps,
                                     rb \in FewRegOps, c \in ImmOps}
    \cup {Instr(op, <<ra, rb>>) : op \in Alu2Ops, ra \in AllRegOps,
                                  rb \in SomeRegOps}
    \cup {Instr(op, <<ra, c>>) : op \in BranchOps, ra \in AllRegOps, c \in ImmOps}
    \cup {Instr(op, <<ra>>) : op \in OneRegOps, ra \in AllRegOps}
    \cup {Instr(op, <<>>) : op \in SimpleOps}

\* instructions with too few operands, lines with no known mnemonic, the
\* empty line
ShortInstrs ==
    {Instr(op, SubSeq(<<RegOp(1), RegOp(2), RegOp(3)>>, 1, n)) :
        op \in DOMAIN OP_TABLE, n \in 0..2}
    \cup {Instr(op, ps) : op \in UnknownOps,
                          ps \in {<<>>, <<RegOp(3), HexOp(135)>>}}
    \cup {[op |-> <<>>, args |-> <<>>, text |-> <<>>]}

DressedInstrs ==
    {Dressed(<<>>, Instr(op_ldi, <<RegOp(3), HexOp(135)>>), x) :
        x \in {<<" ", ";", " ", "R", "3">>, <<"\r">>, <<";", ":">>}}
    \cup {Dressed(<<"a", ":">>, Instr(op_brmi, <<RegOp(3), DecOp(3)>>), <<>>),
          Dressed(<<"a", ":">>, Instr(op_ld, <<RegOp(1), AddrOp(DecOp(4), 2)>>),
                  <<" ", ";", " ", "x", "\r">>),
          [op |-> <<>>, args |-> <<>>, text |-> <<";", " ", "n", "o", "p">>]}

\* what a line may carry before its instruction: nothing, a label and its
\* ":", a label between spaces, a label that holds a ":" itself
Labels == {<<>>, <<"a", ":">>, <<" ", "l", "p", " ", ":">>,
           <<"a", ":", "b", ":">>}

\* what a line may carry after its instruction: nothing, a ";" and its
\* comment, with a ":" in the comment or without
Comments == {<<>>, <<";">>, <<" ", ";", " ", "x">>, <<";", ":">>,
             <<" ", ";", " ", "a", ":", "b">>}

\* the instructions written between the labels and the comments
BareInstrs ==
    {Instr(op_ldi, <<RegOp(3), HexOp(135)>>),
     Instr(op_brmi, <<RegOp(3), DecOp(3)>>),
     Instr(op_ld, <<RegOp(1), AddrOp(DecOp(4), 2)>>),
     Instr(op_nop, <<>>)}

\* every label before and every comment after each of them
LabelledInstrs ==
    {Dressed(l, i, c) : l \in Labels, i \in BareInstrs, c \in Comments}

\* the instructions of the files of several lines
FewInstrs ==
    {Instr(op_ldi, <<RegOp(3), HexOp(135)>>),
     Instr(op_brmi, <<RegOp(3), DecOp(3)>>),
     Instr(op_brpl, <<RegOp(3), DecOp(3)>>),
     Instr(op_st, <<AddrOp(HexOp(103), 1), RegOp(2)>>),
     Instr(op_nop, <<>>),
     Instr(op_ldi, <<RegOp(3)>>),
     Instr(op_ldi, <<>>),
     Instr(<<"f", "o", "o">>, <<>>),
     Instr(op_addi, <<RegOp(MaxReg), BadOp(<<"X", "3">>),
                      BadOp(<<"1", "2", "x">>)>>),
     [op |-> <<>>, args |-> <<>>, text |-> <<>>]}

RECURSIVE SeqsOf(_, _)
\* the sequences of n elements of S
SeqsOf(S, n) ==
    IF n = 0 THEN {<<>>}
    ELSE {Append(f, l) : f \in SeqsOf(S, n - 1), l \in S}

\* buff.toString().split("\n") has at least one line
Files ==
    {<<i>> : i \in FullInstrs \cup ShortInstrs \cup DressedInstrs
                     \cup LabelledInstrs}
    \cup UNION {SeqsOf(FewInstrs, n) : n \in 2..MaxLines}

(***************************************************************************)
(* main of part_000.  pc is the loop main is in, idx the number of lines   *)
(* the loop has done, log what was written to the console.                 *)
(***************************************************************************)
Init == /\ src \in Files
        /\ lines = [k \in 1..Len(src) |-> src[k].text]
        /\ instructions = <<>>
        /\ assembled = <<>>
        /\ compiled = <<>>
        /\ pc = "parse"
        /\ idx = 0
        /\ log = <<>>

\* idx and pc after one more line of a loop
Advance(next) ==
    IF idx + 1 = Len(lines)
    THEN idx' = 0 /\ pc' = next
    ELSE idx' = idx + 1 /\ pc' = pc

\* lines.map(parseInstruction)
Parse ==
    /\ pc = "parse"
    /\ instructions' = Append(instructions, parseInstruction(lines[idx + 1]))
    /\ Advance("assemble")
    /\ UNCHANGED <<src, lines, assembled, compiled, log>>

\* instructions.map(assembleInstruction), a line that returns
Assemble ==
    /\ pc = "assemble"
    /\ LET out == assembleInstruction(instructions[idx + 1])
       IN  /\ ~out.threw
           /\ assembled' = Append(assembled, out.fields)
           /\ log' = IF out.warned THEN Append(log, <<"warn", idx + 1>>)
                     ELSE log
    /\ Advance("pack")
    /\ UNCHANGED <<src, lines, instructions, compiled>>

\* instructions.map(assembleInstruction), a line that throws: nothing
\* catches the TypeError and the run ends
Throw ==
    /\ pc = "assemble"
    /\ assembleInstruction(instructions[idx + 1]).threw
    /\ pc' = "crashed"
    /\ UNCHANGED <<src, lines, instructions, assembled, compiled, idx, log>>

\* assembled.map(bitsToNumber)
Pack ==
    /\ pc = "pack"
    /\ compiled' = Append(compiled, bitsToNumber(assembled[idx + 1]))
    /\ Advance("report")
    /\ UNCHANGED <<src, lines, instructions, assembled, log>>

\* the loop that prints each line beside its word
Report ==
    /\ pc = "report"
    /\ log' = Append(log, <<"print", idx + 1>>)
    /\ Advance("done")
    /\ UNCHANGED <<src, lines, instructions, assembled, compiled>>

Next == Parse \/ Assemble \/ Throw \/ Pack \/ Report

Spec == Init /\ [][Next]_vars

(***************************************************************************)
(* main of asm374.ts                                                       *)
(***************************************************************************)
V1Assemble ==
    /\ pc = "assemble"
    /\ LET out == V1assembleInstruction(instructions[idx + 1])
       IN  /\ ~out.threw
           /\ assembled' = Append(assembled, out.fields)
           /\ log' = IF out.warned THEN Append(log, <<"warn", idx + 1>>)
                     ELSE log
    /\ Advance("report")
    /\ UNCHANGED <<src, lines, instructions, compiled>>

V1Throw ==
    /\ pc = "assemble"
    /\ V1assembleInstruction(instructions[idx + 1]).threw
    /\ pc' = "crashed"
    /\ UNCHANGED <<src, lines, instructions, assembled, compiled, idx, log>>

\* the loop that prints each line and its fields and checks their widths
V1Report ==
    /\ pc = "report"
    /\ log' = log \o <<<<"print", idx + 1>>>> \o
              (IF BitSum(assembled[idx + 1]) # 32
               THEN <<<<"wrong number of bits", idx + 1>>>> ELSE <<>>)
    /\ Advance("done")
    /\ UNCHANGED <<src, lines, instructions, assembled, compiled>>

NextV1 == Parse \/ V1Assemble \/ V1Throw \/ V1Report

SpecV1 == Init /\ [][NextV1]_vars
(***************************************************************************)
(* What the operands of an intended instruction denote                     *)
(***************************************************************************)
InRange19(v) == -Pow2(18) <= v /\ v < Pow2(18)

\* a register R0..R15
GoodReg(o) == o.kind = "reg" /\ o.val \in 0..15

\* an immediate of the grammar, of any size
IsImm(o) == o.kind = "imm"

\* an address of the grammar, bare or with a base register of any index
IsAddr(o) == o.kind \in {"imm", "addr"}

\* the base register an address denotes: 0 when it names none
BaseOf(o) == IF o.kind = "addr" THEN o.base ELSE 0

\* an address of the grammar with a base register R0..R15, or none
GoodAddr(o) == IsAddr(o) /\ BaseOf(o) \in 0..15

\* the instruction has the operands its layout asks for, its registers are
\* R0..R15 and its immediate or offset is one of the grammar, of any size
WellShaped(i) ==
    LET a == i.args
        n == Len(a)
    IN  \/ i.op \in LoadOps /\ n = 2 /\ GoodReg(a[1]) /\ GoodAddr(a[2])
        \/ i.op \in StoreOps /\ n = 2 /\ GoodAddr(a[1]) /\ GoodReg(a[2])
        \/ i.op \in Alu3Ops /\ n = 3 /\ \A k \in 1..3 : GoodReg(a[k])
        \/ /\ i.op \in AluImmOps /\ n = 3 /\ GoodReg(a[1]) /\ GoodReg(a[2])
           /\ IsImm(a[3])
        \/ i.op \in Alu2Ops /\ n = 2 /\ GoodReg(a[1]) /\ GoodReg(a[2])
        \/ i.op \in BranchOps /\ n = 2 /\ GoodReg(a[1]) /\ IsImm(a[2])
        \/ i.op \in OneRegOps /\ n = 1 /\ GoodReg(a[1])
        \/ i.op \in SimpleOps /\ n = 0

\* the layout of the mnemonic has a 19-bit immediate
HasImm(i) ==
    i.op \in LoadOps \cup StoreOps \cup AluImmOps \cup BranchOps

\* the operand that fills the 19-bit field of a well-shaped instruction
ImmArg(i) == IF i.op \in LoadOps THEN i.args[2]
             ELSE IF i.op \in StoreOps THEN i.args[1]
             ELSE IF i.op \in AluImmOps THEN i.args[3]
             ELSE i.args[2]

\* well shaped, and the immediate fits its 19 bits
WellFormed(i) ==
    WellShaped(i) /\ (HasImm(i) => InRange19(ImmArg(i).val))

\* the comment of the line holds a ":" (parseInstruction then takes the
\* text up to that ":" for a label, and the instruction is lost)
CommentHoldsColon(text) ==
    /\ Includes(text, ";")
    /\ Includes(SubstrFrom(text, IndexOf(text, ";") + 1), ":")

\* the label of the line holds a ":": the text before the comment has two
\* of them (parseInstruction then leaves the rest of the label in front of
\* the mnemonic)
LabelHoldsColon(text) ==
    LET stop == IF Includes(text, ";") THEN IndexOf(text, ";") ELSE Len(text)
        code == Substr(text, 0, stop)
    IN  /\ Includes(code, ":")
        /\ Includes(SubstrFrom(code, IndexOf(code, ":") + 1), ":")

\* the first ":" of the line is not the end of its label: it lies in the
\* comment of a line with no label, or inside the label
StrayColon(text) ==
    \/ CommentHoldsColon(text) /\ IndexOf(text, ":") > IndexOf(text, ";")
    \/ LabelHoldsColon(text)

\* a well-formed instruction on a line with no stray ":"
Encodable(i) == WellFormed(i) /\ ~StrayColon(i.text)

\* a number below 2^32 with no NaN in it
IsWord(w) == ~w.nan /\ w.hi \in 0..(Base - 1)

\* the word whose bits above the low 19 are top (a number below 2^13) and
\* whose low 19 bits hold v in two's complement
WordOf(top, v) ==
    LET m == v % Pow2(19)
    IN  Wide(top * 8 + (m \div Base), m % Base)

\* the low 19 bits of a word
Low19(w) == (w.hi % 8) * Base + w.lo

\* a 19-bit pattern read as a two's-complement number
Signed19(m) == IF m >= Pow2(18) THEN m - Pow2(19) ELSE m

(***************************************************************************)
(* C1.  For every mnemonic of OP_TABLE and every well-formed operand list, *)
(* the widths of the fields assembleInstruction returns sum to 32, and     *)
(* main of asm374.ts never writes "wrong number of bits" for the line.     *)
(***************************************************************************)
C1_FieldsSumTo32 ==
    \A k \in 1..Len(assembled) :
        Encodable(src[k]) =>
            /\ BitSum(assembled[k]) = 32
            /\ \A e \in 1..Len(log) : log[e] # <<"wrong number of bits", k>>

\* C1 on part_000 alone: there the widths do sum to 32
C1_Part000FieldsSumTo32 ==
    \A k \in 1..Len(assembled) :
        Encodable(src[k]) => BitSum(assembled[k]) = 32

(***************************************************************************)
(* C2.  A line ld/ldi Ra, address with Ra in 0..15 and an address that     *)
(* denotes base Rb in 0..15 (0 when bare) and an offset imm in             *)
(* -2^18 .. 2^18 - 1 is packed to opcode*2^27 + Ra*2^23 + Rb*2^19 +        *)
(* (imm mod 2^19); `ldi R3, $87` is packed to 1*2^27 + 3*2^23 + 135.       *)
(* The line may carry a label, a carriage return and a comment that holds  *)
(* no ":".                                                                 *)
(***************************************************************************)
C2_LoadWord ==
    \A k \in 1..Len(compiled) :
        LET i == src[k]
        IN  /\ (i.op \in LoadOps /\ Encodable(i)) =>
                  compiled[k] =
                      WordOf((IF i.op = op_ldi THEN 1 ELSE 0) * Pow2(8)
                             + i.args[1].val * 16 + BaseOf(i.args[2]),
                             i.args[2].val)
            /\ lines[k] = <<" ", " ", " ", " ", "l", "d", "i", " ", "R", "3",
                            ",", " ", "$", "8", "7">> =>
                  compiled[k] = Wide(Pow2(11) + 3 * Pow2(7), 135)

\* ldi R3, $87 and a load with a negative offset and a base register have
\* been packed
C2_Witness ==
    /\ pc = "done"
    /\ Len(src) = 1
    /\ src[1] \in {Instr(op_ldi, <<RegOp(3), HexOp(135)>>),
                   Instr(op_ld, <<RegOp(15), AddrOp(DecOp(-2), 2)>>)}
    /\ compiled[1] \in {Wide(Pow2(11) + 3 * Pow2(7), 135),
                        Wide(15 * Pow2(7) + 2 * 8 + 7, Base - 2)}

(***************************************************************************)
(* C3.  For a branch brzr/brnz/brpl/brmi Ra, c with Ra in 0..15,           *)
(* assembleInstruction returns opcode 18 (5 bits), Ra (4 bits), the        *)
(* sub-code (2 bits: brzr 0, brnz 1, brpl 2, brmi 3), 2 zero bits and c    *)
(* (19 bits), in that order; when c fits 19 bits the word is               *)
(* 18*2^27 + Ra*2^23 + sub*2^21 + (c mod 2^19), so two branches with the   *)
(* same operands differ in the sub-code alone; `brmi R3, 3` has register   *)
(* 3, sub-code 3, immediate 3.                                             *)
(***************************************************************************)
SubCode(op) == CASE op = op_brzr -> 0
                 [] op = op_brnz -> 1
                 [] op = op_brpl -> 2
                 [] op = op_brmi -> 3

IsBranch(i) ==
    /\ i.op \in BranchOps /\ Len(i.args) = 2
    /\ GoodReg(i.args[1]) /\ IsImm(i.args[2])
    /\ ~StrayColon(i.text)

C4_RoundTrip19 ==
    \A k \in 1..Len(compiled) :
        (Encodable(src[k]) /\ HasImm(src[k])) =>
            LET v == ImmArg(src[k]).val
            IN  /\ IsWord(compiled[k])
                /\ Low19(compiled[k]) = (IF v >= 0 THEN v ELSE Pow2(19) + v)
                /\ Signed19(Low19(compiled[k])) = v

\* an instruction with the most negative offset and registers 15 and 15
\* beside it has been packed
C4_Witness ==
    /\ pc = "done"
    /\ Len(src) = 1
    /\ Encodable(src[1])
    /\ src[1].op = op_st
    /\ ImmArg(src[1]).val = -Pow2(18)
    /\ ImmArg(src[1]).base = 15
    /\ src[1].args[2].val = 15
    /\ Low19(compiled[1]) = Pow2(18)

(***************************************************************************)
(* C5.  A line whose mnemonic is no key of OP_TABLE is not packed to an    *)
(* ordinary machine word: encoding it is an error.                         *)
(***************************************************************************)
C5_UnknownMnemonicIsError ==
    \A k \in 1..Len(compiled) :
        instructions[k].op \notin DOMAIN OP_TABLE => ~IsWord(compiled[k])

(***************************************************************************)
(* C6.  A line that fails does not abort the run: when main has ended,     *)
(* every well-formed line of the file has been packed, to the word it has  *)
(* when it is the only line.                                               *)
(***************************************************************************)
WordAlone(line) ==
    bitsToNumber(assembleInstruction(parseInstruction(line)).fields)

C6_FailingLineDoesNotAbort ==
    pc \in {"done", "crashed"} =>
        \A k \in 1..Len(lines) :
            Encodable(src[k]) =>
                /\ k <= Len(compiled)
                /\ compiled[k] = WordAlone(lines[k])

(***************************************************************************)
(* C7.  An instruction whose immediate does not fit its 19-bit field is    *)
(* not packed to a word: encoding it is an ImmediateOutOfRange error.      *)
(***************************************************************************)
OutOfRange(i) ==
    /\ WellShaped(i) /\ HasImm(i) /\ ~InRange19(ImmArg(i).val)
    /\ ~StrayColon(i.text)

C7_OutOfRangeIsError ==
    \A k \in 1..Len(compiled) : OutOfRange(src[k]) => ~IsWord(compiled[k])

\* the second half of C7 alone: a word packed from an immediate that does
\* not fit has the opcode, registers and sub-code of its instruction
C7_UpperFieldsIntact ==
    \A k \in 1..Len(compiled) :
        (OutOfRange(src[k]) /\ IsWord(compiled[k])) =>
            compiled[k].hi \div 8 =
                bitsToNumber(SubSeq(assembled[k], 1, Len(assembled[k]) - 1)
                             \o <<Field(19, Num(0))>>).hi \div 8

(***************************************************************************)
(* C8.  fieldFromRegister gives the field of width 4 and value r for the   *)
(* token R<r>, r in 0..15, and no field for any other token: the           *)
(* instruction is then an error (MalformedRegister).                       *)
(***************************************************************************)
\* the mnemonics whose first operand is a register
RegFirstOps ==
    LoadOps \cup Alu3Ops \cup AluImmOps \cup Alu2Ops \cup BranchOps
    \cup OneRegOps

C8_RegisterFieldOrError ==
    \A k \in 1..Len(assembled) :
        LET i == src[k]
        IN  (i.op \in RegFirstOps /\ ~StrayColon(i.text)) =>
                IF Len(i.args) >= 1 /\ GoodReg(i.args[1])
                THEN assembled[k][2] = Field(4, Num(i.args[1].val))
                ELSE Len(assembled[k]) < 2

\* the first half of C8 alone
C8_GoodRegisterField ==
    \A k \in 1..Len(assembled) :
        LET i == src[k]
        IN  (/\ i.op \in RegFirstOps /\ ~StrayColon(i.text)
             /\ Len(i.args) >= 1 /\ GoodReg(i.args[1])) =>
                assembled[k][2] = Field(4, Num(i.args[1].val))

(***************************************************************************)
(* C9.  parseAddress resolves offset(Rn) to the register field n of width  *)
(* 4 and the offset's value, and a bare offset to the register field 0 and *)
(* the offset's value; a $ offset is read in base 16, any other in signed  *)
(* base 10.  4(R2) gives 2 and 4, $75 gives 0 and 117, $67(R1) gives 1     *)
(* and 103.                                                                *)
(***************************************************************************)
\* the address operand of a load or a store, and the place of its register
\* field in the fields returned
AddrArg(i) == IF i.op \in LoadOps THEN i.args[2] ELSE i.args[1]

AddrParam(ins) == IF ins.op \in LoadOps THEN ins.params[2] ELSE ins.params[1]

HasAddr(i) ==
    /\ i.op \in LoadOps \cup StoreOps /\ Len(i.args) = 2
    /\ IsAddr(AddrArg(i))
    /\ ~StrayColon(i.text)

C9_Resolves(k, text, n, offset) ==
    (/\ instructions[k].op \in LoadOps \cup StoreOps
     /\ Len(instructions[k].params) = 2
     /\ AddrParam(instructions[k]) = text) =>
        /\ assembled[k][3] = Field(4, Num(n))
        /\ assembled[k][4] = Field(19, Num(offset))

ImmLast(i) ==
    /\ \/ i.op \in AluImmOps /\ Len(i.args) = 3
       \/ i.op \in BranchOps /\ Len(i.args) = 2
    /\ ~StrayColon(i.text)

C10_ImmediateValueOrError ==
    \A k \in 1..Len(assembled) :
        LET i == src[k]
            o == i.args[Len(i.args)]
        IN  ImmLast(i) =>
                IF IsImm(o)
                THEN assembled[k][Len(assembled[k])] = Field(19, Num(o.val))
                ELSE assembled[k] = <<>>

\* the first half of C10 alone
C10_GoodImmediateValue ==
    \A k \in 1..Len(assembled) :
        LET i == src[k]
            o == i.args[Len(i.args)]
        IN  (ImmLast(i) /\ IsImm(o)) =>
                assembled[k][Len(assembled[k])] = Field(19, Num(o.val))

(***************************************************************************)
(* C11.  The label and the comment of a line are ignored: for every        *)
(* instruction text I with no ":" and no ";" in it, every label L and      *)
(* every comment C (C may hold a ":", L holds no ";"), parseInstruction    *)
(* returns for L:I;C, for I;C and for I the same mnemonic and the same     *)
(* operand list.                                                           *)
(***************************************************************************)
\* the instruction text of a line, without its label and its comment
Bare(i) == Line(i.op, [k \in 1..Len(i.args) |-> i.args[k].text])

\* the instruction text holds neither ":" nor ";"
PlainText(i) == ~Includes(Bare(i), ":") /\ ~Includes(Bare(i), ";")

C11_LabelAndCommentIgnored ==
    \A k \in 1..Len(instructions) :
        PlainText(src[k]) => instructions[k] = parseInstruction(Bare(src[k]))

\* C11 on the lines whose first ":" ends their label
C11_IgnoredWithoutStrayColon ==
    \A k \in 1..Len(instructions) :
        (PlainText(src[k]) /\ ~StrayColon(src[k].text)) =>
            instructions[k] = parseInstruction(Bare(src[k]))

\* a line with a label, and a ":" in its comment, has been parsed
C11_LabelledLineParsed ==
    /\ Len(instructions) = 1
    /\ src[1] = Dressed(<<" ", "l", "p", " ", ":">>,
                        Instr(op_ldi, <<RegOp(3), HexOp(135)>>),
                        <<" ", ";", " ", "a", ":", "b">>)
    /\ instructions[1].op = op_ldi
====
